---- MODULE Spec2Model ----
(***************************************************************************)
(* Model of the kombat-vision dashboard: the backend-connected             *)
(* TacticalDashboard component (src/src/components/TacticalDashboard.tsx,  *)
(* second component of the file, lines 208-476) and the api service it     *)
(* calls (src/src/components/ControlPanel.tsx, lines 211-393), with the    *)
(* drop handler of src/src/components/VideoUpload.tsx that hands it files. *)
(*                                                                         *)
(* The React state of the component is the state of the model.  Every      *)
(* await in a handler splits the handler in two steps: the part that runs  *)
(* up to the request, and the continuation that runs when the backend      *)
(* answers.  Requests in flight are kept in the model so that answers may  *)
(* arrive in any order.  The backend is an external collaborator: its      *)
(* answers are drawn from small sets.                                      *)
(***************************************************************************)
EXTENDS Integers, Sequences, FiniteSets, TLC

VARIABLES
    uploadedVideo,     \* useState<File | null>            (line 209)
    isProcessing,      \* useState(false)                  (line 211)
    progress,          \* useState(0)                      (line 212)
    currentFrame,      \* useState(0)                      (line 213)
    totalFrames,       \* useState(0)                      (line 214)
    detectedTargets,   \* useState(0)                      (line 215)
    status,            \* 'idle'|'processing'|'completed'|'error' (line 216)
    detectionSummary,  \* useState<DetectionSummary | null> (line 217)
    backendConnected,  \* useState(false)                  (line 218)
    toast,             \* title of the last toast the dashboard raised
    probes,            \* health checks in flight, in the order they started
    lastProbe,         \* outcome of the probe that completed last
    uploadReqs,        \* POST /upload-video requests in flight
    startReqs,         \* POST /start-processing requests in flight
    pollers,           \* the live runs of api.pollProcessingStatus
    fetches,           \* GET /detections requests in flight
    calls,             \* number of handler calls and re-runs of the effect
    event,             \* the step of the program that ran last
    jobFetches,        \* GET /detections requests sent for the current job
    \* one run of api.pollProcessingStatus against a scripted backend
    script,            \* the answers the backend gives, in order
    answered,          \* number of status requests answered so far
    run,               \* the poll run
    log,               \* the statuses passed to onProgress, in order
    outcome            \* what the returned promise reported, in order

vars == <<uploadedVideo, isProcessing, progress, currentFrame, totalFrames,
          detectedTargets, status, detectionSummary, backendConnected, toast,
          probes, lastProbe, uploadReqs, startReqs, pollers, fetches, calls,
          event, jobFetches, script, answered, run, log, outcome>>

dash == <<uploadedVideo, isProcessing, progress, currentFrame, totalFrames,
          detectedTargets, status, detectionSummary>>

conn == <<backendConnected, probes, lastProbe>>

\* the state of the component and of its requests
dashvars == <<uploadedVideo, isProcessing, progress, currentFrame, totalFrames,
              detectedTargets, status, detectionSummary, backendConnected,
              toast, probes, lastProbe, uploadReqs, startReqs, pollers,
              fetches, calls, event, jobFetches>>

\* the state of the poll run against a scripted backend
pollvars == <<script, answered, run, log, outcome>>

----------------------------------------------------------------------------
(* Bounds of the model *)

MaxCalls == 4         \* handler calls and re-runs of the effect in one run
MaxPolls == 2         \* status requests of one poll run
MaxScript == 3        \* answers of the scripted backend
MaxLiveCalls == 3     \* handler calls and re-runs that are followed to the end
MaxTargets == 1       \* targets that one simulated run detects

(* Values the environment supplies *)

NoFile == "null"
Files == {"clip1.mp4", "empty.mp4"}     \* files whose type is video/mp4
Dropped == Files \cup {"clip1.mkv"}     \* files the dropzone lets through
\* null of DetectionSummary | null, as a record so that it can be compared
\* with a summary
NoSummary == [total_count |-> -1, frames_processed |-> -1]
ProgressVals == {10, 55}
CountVals == {2}
Replies == {"ok", "http_error", "network_error"}

\* interface ProcessingStatus, restricted to the fields the dashboard reads
StatusVals ==
    [is_processing : BOOLEAN, progress : ProgressVals, detections_count : CountVals]

\* interface DetectionSummary, restricted to the fields the dashboard reads
SummaryVals ==
    { [total_count |-> 0, frames_processed |-> 120],
      [total_count |-> 2, frames_processed |-> 8450] }

----------------------------------------------------------------------------
(* Helpers *)

\* s with its i-th element removed
RemoveAt(s, i) == SubSeq(s, 1, i - 1) \o SubSeq(s, i + 1, Len(s))

\* file.type: browsers report no media type for a .mkv file
fileType(file) == IF file \in Files THEN "video/mp4" ELSE ""

\* file.size, in bytes
fileSize(file) == IF file = "empty.mp4" THEN 0 ELSE 1048576

\* file.type.startsWith('video/')
declaresVideo(file) == fileType(file) = "video/mp4"

\* apiRequest: a 2xx answer is parsed and returned, a non-2xx answer throws
\* ApiError(response.status, ...), a transport failure throws ApiError(0, ...)
apiRequest(reply) ==
    IF reply = "ok" THEN [ok |-> TRUE, error |-> "none"]
    ELSE IF reply = "http_error" THEN [ok |-> FALSE, error |-> "ApiError(status)"]
    ELSE [ok |-> FALSE, error |-> "ApiError(0)"]

\* Math.floor((status.progress / 100) * totalFrames)
estimateFrame(p, tf) == (p * tf) \div 100

\* fetch() in api.uploadVideo is not wrapped: a non-2xx answer throws ApiError,
\* a transport failure throws whatever fetch rejects with (a TypeError)
uploadVideo(reply) ==
    IF reply = "ok" THEN [ok |-> TRUE, error |-> "none"]
    ELSE IF reply = "http_error" THEN [ok |-> FALSE, error |-> "ApiError(status)"]
    ELSE [ok |-> FALSE, error |-> "TypeError"]

\* pollDecision with the test of is_processing inverted
pollDecisionInverted(st) ==
    [resolve |-> st.is_processing, again |-> ~st.is_processing]

\* pollDecision with the else missing: the timer is set after resolve() too
pollDecisionNoElse(st) ==
    [resolve |-> ~st.is_processing, again |-> TRUE]

\* the body of poll() after a status has arrived and onProgress has run:
\* if (!status.is_processing) resolve(status) else setTimeout(poll, intervalMs)
pollDecision(st) ==
    [resolve |-> ~st.is_processing, again |-> st.is_processing]

\* resolve()/reject() of a Promise: only the first call settles it
settle(settled, how) == IF settled = "pending" THEN how ELSE settled

\* the run of api.pollProcessingStatus begun by a start that was acknowledged;
\* tf is the totalFrames the progress callback closed over; stale tells whether
\* the job of the run has been superseded since, and by what
newPoller(tf) ==
    [tf |-> tf, req |-> TRUE, timer |-> FALSE, sent |-> 1,
     settled |-> "pending", stale |-> "no"]

\* a later acknowledged start supersedes the jobs that were current
supersededByStart(rs) ==
    [i \in DOMAIN rs |->
        [rs[i] EXCEPT !.stale = IF @ = "no" THEN "start" ELSE @]]

\* an accepted upload supersedes every job
supersededByUpload(rs) ==
    [i \in DOMAIN rs |-> [rs[i] EXCEPT !.stale = "upload"]]

\* the step that ran last: the handler or continuation, whether the answer it
\* continued from was a success, and whether it belonged to a superseded job
step(op, ok, stale) == [op |-> op, ok |-> ok, stale |-> stale]

\* a continuation that ran its catch branch: the step, and the error caught
thrown(op, error) == [op |-> op, ok |-> FALSE, stale |-> "no", error |-> error]

\* a run with no request in flight and no timer pending will never act again
finished(p) == ~p.req /\ ~p.timer

\* the run after poll() has handled an answer, with the timer set after every
\* status, whether it reports ongoing processing or not
afterReplyKeepsPolling(p, ok, st) ==
    [p EXCEPT !.req = FALSE,
              !.timer = ok,
              !.settled = IF ok
                          THEN (IF pollDecision(st).resolve
                                THEN settle(p.settled, "fulfilled")
                                ELSE p.settled)
                          ELSE settle(p.settled, "rejected")]

\* the run after poll() has handled an answer, with the failed request tried
\* again: the catch branch sets the timer instead of only rejecting
afterReplyRetrying(p, ok, st) ==
    [p EXCEPT !.req = FALSE,
              !.timer = ~ok \/ pollDecision(st).again,
              !.settled = IF ok
                          THEN (IF pollDecision(st).resolve
                                THEN settle(p.settled, "fulfilled")
                                ELSE p.settled)
                          ELSE settle(p.settled, "rejected")]

\* the run after poll() has handled the answer to its status request: the
\* try branch (onProgress, then resolve or setTimeout) or the catch branch
afterReply(p, ok, st) ==
    [p EXCEPT !.req = FALSE,
              !.timer = ok /\ pollDecision(st).again,
              !.settled = IF ok
                          THEN (IF pollDecision(st).resolve
                                THEN settle(p.settled, "fulfilled")
                                ELSE p.settled)
                          ELSE settle(p.settled, "rejected")]

\* resolve(status) settles the promise: the .then handler runs
fulfils(p, ok, st) == ok /\ pollDecision(st).resolve /\ p.settled = "pending"

\* rejects for a catch branch of poll() that does not call reject(error)
rejectsNever(p, ok) == FALSE

\* reject(error) settles the promise: the .catch handler runs
rejects(p, ok) == ~ok /\ p.settled = "pending"

\* the run after setTimeout(poll, intervalMs) has fired
afterTimer(p) == [p EXCEPT !.timer = FALSE, !.req = TRUE, !.sent = p.sent + 1]

\* getDetections with the request left out
getDetectionsNotSent(fs, stale) == fs

\* api.getDetections(): every call sends GET /detections; the request carries
\* whether the job of the run that asked was superseded
getDetections(fs, stale) == Append(fs, [stale |-> stale])

\* the start button with its disabled attribute left out
startDisabledNever == FALSE

\* disabled={isProcessing} of the start button
startDisabled == isProcessing

\* canExport={status === 'completed'} of the ControlPanel
canExport == status = "completed"

\* disabled={!canExport} of the export button
exportDisabled == ~canExport

\* startGuard with the check of uploadedVideo left out
startGuardNoVideoCheck(video, connected) ==
    IF ~connected THEN "Backend Unavailable (start)" ELSE "send"

\* startGuard with the check of backendConnected left out
startGuardNoBackendCheck(video, connected) ==
    IF video = NoFile THEN "No Video Loaded" ELSE "send"

\* the two early returns of handleStartProcessing: the toast of the guard that
\* fails, or "send" when the start request goes out
startGuard(video, connected) ==
    IF video = NoFile THEN "No Video Loaded"
    ELSE IF ~connected THEN "Backend Unavailable (start)"
    ELSE "send"

----------------------------------------------------------------------------
(* Initial state: the component is mounted and the effect has run once *)

DashInit ==
    /\ uploadedVideo = NoFile
    /\ isProcessing = FALSE
    /\ progress = 0
    /\ currentFrame = 0
    /\ totalFrames = 0
    /\ detectedTargets = 0
    /\ status = "idle"
    /\ detectionSummary = NoSummary
    /\ backendConnected = FALSE
    /\ toast = "none"
    /\ probes = <<"pending">>
    /\ lastProbe = "none"
    /\ uploadReqs = <<>>
    /\ startReqs = <<>>
    /\ pollers = <<>>
    /\ fetches = <<>>
    /\ calls = 0
    /\ event = step("mount", TRUE, "no")
    /\ jobFetches = 0

\* no scripted poll run
PollIdle ==
    /\ script = <<>>
    /\ answered = 0
    /\ run = [newPoller(0) EXCEPT !.req = FALSE]
    /\ log = <<>>
    /\ outcome = <<>>

Init == DashInit /\ PollIdle

----------------------------------------------------------------------------
(* Connectivity *)

\* the effect runs again whenever the identity of toast changes (deps [toast])
checkBackend ==
    /\ calls < MaxCalls
    /\ calls' = calls + 1
    /\ event' = step("checkBackend", TRUE, "no")
    /\ probes' = Append(probes, "pending")
    /\ UNCHANGED <<dash, backendConnected, toast, lastProbe, uploadReqs,
                   startReqs, pollers, fetches, jobFetches>>
    /\ UNCHANGED pollvars

\* 5000 ms pass while a health check is unanswered: fetch() is called without
\* a timeout or an abort signal, so nothing happens in the program
probeDeadline(i) ==
    /\ probes[i] = "pending"
    /\ \A j \in 1..(i - 1) : probes[j] = "overdue"
    /\ probes' = [probes EXCEPT ![i] = "overdue"]
    /\ event' = step("probeDeadline", TRUE, "no")
    /\ UNCHANGED <<dash, backendConnected, toast, lastProbe, uploadReqs,
                   startReqs, pollers, fetches, calls, jobFetches>>
    /\ UNCHANGED pollvars

\* the continuation of checkBackend after await api.healthCheck()
healthCheckReply(i, reply) ==
    /\ probes' = RemoveAt(probes, i)
    /\ event' = step("healthCheckReply", apiRequest(reply).ok, "no")
    /\ IF apiRequest(reply).ok
       THEN /\ backendConnected' = TRUE
            /\ lastProbe' = "Available"
            /\ toast' = toast
       ELSE /\ backendConnected' = FALSE
            /\ lastProbe' = "Unavailable"
            /\ toast' = "Backend Disconnected"
    /\ UNCHANGED <<dash, uploadReqs, startReqs, pollers, fetches, calls,
                   jobFetches>>
    /\ UNCHANGED pollvars

----------------------------------------------------------------------------
(* Upload *)

\* handleVideoUpload with the check of backendConnected left out
handleVideoUploadNoGuard(file) ==
    /\ calls < MaxCalls
    /\ calls' = calls + 1
    /\ event' = step("handleVideoUpload", TRUE, "no")
    /\ toast' = toast
    /\ uploadReqs' = Append(uploadReqs, file)
    /\ UNCHANGED <<dash, conn, startReqs, pollers, fetches, jobFetches>>
    /\ UNCHANGED pollvars

\* handleVideoUpload up to await api.uploadVideo(file), as onDrop calls it
handleVideoUpload(file) ==
    /\ calls < MaxCalls
    /\ calls' = calls + 1
    /\ event' = step("handleVideoUpload", TRUE, "no")
    /\ IF ~backendConnected
       THEN /\ toast' = "Backend Unavailable (upload)"
            /\ uploadReqs' = uploadReqs
       ELSE /\ toast' = toast
            /\ uploadReqs' = Append(uploadReqs, file)
    /\ UNCHANGED <<dash, conn, startReqs, pollers, fetches, jobFetches>>
    /\ UNCHANGED pollvars

\* onDrop of VideoUpload with acceptedFiles[0] = file: a file that declares a
\* video type is handed to handleVideoUpload (and VideoUpload raises its own
\* "Video Uploaded" toast at once); any other file only raises the toast
\* "Invalid File Type" of VideoUpload.  The size of the file is not looked at.
onDrop(file) ==
    IF declaresVideo(file)
    THEN handleVideoUpload(file)
    ELSE /\ calls < MaxCalls
         /\ calls' = calls + 1
         /\ event' = step("onDrop", FALSE, "no")
         /\ UNCHANGED <<dash, conn, toast, uploadReqs, startReqs, pollers,
                        fetches, jobFetches>>
         /\ UNCHANGED pollvars

\* the continuation of handleVideoUpload after await api.uploadVideo(file)
uploadVideoReply(i, reply) ==
    /\ uploadReqs' = RemoveAt(uploadReqs, i)
    /\ event' = IF uploadVideo(reply).ok
                THEN step("uploadVideoReply", TRUE, "no")
                ELSE thrown("uploadVideoReply", uploadVideo(reply).error)
    /\ IF uploadVideo(reply).ok
       THEN /\ uploadedVideo' = uploadReqs[i]
            /\ status' = "idle"
            /\ progress' = 0
            /\ currentFrame' = 0
            /\ detectedTargets' = 0
            /\ detectionSummary' = NoSummary
            /\ toast' = "Video Uploaded"
            /\ pollers' = supersededByUpload(pollers)
            /\ fetches' = supersededByUpload(fetches)
            /\ jobFetches' = 0
       ELSE /\ toast' = "Upload Failed"
            /\ UNCHANGED <<uploadedVideo, status, progress, currentFrame,
                           detectedTargets, detectionSummary, pollers,
                           fetches, jobFetches>>
    /\ UNCHANGED <<isProcessing, totalFrames, conn, startReqs, calls>>
    /\ UNCHANGED pollvars

----------------------------------------------------------------------------
(* Start *)

\* handleStartProcessing up to await api.startProcessing(); the handler can be
\* called whenever the start button is not disabled
handleStartProcessing ==
    /\ ~startDisabled
    /\ calls < MaxCalls
    /\ calls' = calls + 1
    /\ event' = step("handleStartProcessing", TRUE, "no")
    /\ LET g == startGuard(uploadedVideo, backendConnected) IN
       IF g = "send"
       THEN /\ toast' = toast
            /\ startReqs' = Append(startReqs, [tf |-> totalFrames])
       ELSE /\ toast' = g
            /\ startReqs' = startReqs
    /\ UNCHANGED <<dash, conn, uploadReqs, pollers, fetches, jobFetches>>
    /\ UNCHANGED pollvars

\* startProcessingReply that sets the state but begins no poll run
startProcessingReplyNoPoll(i, reply) ==
    /\ startReqs' = RemoveAt(startReqs, i)
    /\ event' = step("startProcessingReply", apiRequest(reply).ok, "no")
    /\ IF apiRequest(reply).ok
       THEN /\ isProcessing' = TRUE
            /\ status' = "processing"
            /\ progress' = 0
            /\ currentFrame' = 0
            /\ detectedTargets' = 0
            /\ toast' = "Processing Started"
            /\ pollers' = supersededByStart(pollers)
            /\ fetches' = supersededByStart(fetches)
            /\ jobFetches' = 0
       ELSE /\ toast' = "Failed to Start Processing"
            /\ UNCHANGED <<isProcessing, status, progress, currentFrame,
                           detectedTargets, pollers, fetches, jobFetches>>
    /\ UNCHANGED <<uploadedVideo, totalFrames, detectionSummary, conn,
                   uploadReqs, calls>>
    /\ UNCHANGED pollvars

\* the continuation of handleStartProcessing after await api.startProcessing():
\* on success the state is reset and api.pollProcessingStatus sends the first
\* status request
startProcessingReply(i, reply) ==
    /\ startReqs' = RemoveAt(startReqs, i)
    /\ event' = step("startProcessingReply", apiRequest(reply).ok, "no")
    /\ IF apiRequest(reply).ok
       THEN /\ isProcessing' = TRUE
            /\ status' = "processing"
            /\ progress' = 0
            /\ currentFrame' = 0
            /\ detectedTargets' = 0
            /\ toast' = "Processing Started"
            /\ pollers' = Append(supersededByStart(pollers),
                                 newPoller(startReqs[i].tf))
            /\ fetches' = supersededByStart(fetches)
            /\ jobFetches' = 0
       ELSE /\ toast' = "Failed to Start Processing"
            /\ UNCHANGED <<isProcessing, status, progress, currentFrame,
                           detectedTargets, pollers, fetches, jobFetches>>
    /\ UNCHANGED <<uploadedVideo, totalFrames, detectionSummary, conn,
                   uploadReqs, calls>>
    /\ UNCHANGED pollvars

----------------------------------------------------------------------------
(* Polling *)

\* the continuation of poll() after await this.getProcessingStatus(), together
\* with the .then / .catch handlers of handleStartProcessing when the promise
\* settles in this step
pollReply(i, reply, st) ==
    LET p == pollers[i]
        ok == apiRequest(reply).ok
        fulfil == fulfils(p, ok, st)
        reject == rejects(p, ok)
        q == afterReply(p, ok, st)
    IN
    /\ p.req
    /\ event' = step("pollReply", ok, p.stale)
    /\ pollers' = IF finished(q) THEN RemoveAt(pollers, i)
                  ELSE [pollers EXCEPT ![i] = q]
    \* onProgress(status), then setProgress(100) of the .then handler
    /\ progress' = IF fulfil THEN 100 ELSE IF ok THEN st.progress ELSE progress
    /\ detectedTargets' = IF ok THEN st.detections_count ELSE detectedTargets
    /\ currentFrame' = IF ok /\ p.tf > 0
                       THEN estimateFrame(st.progress, p.tf)
                       ELSE currentFrame
    /\ isProcessing' = IF fulfil \/ reject THEN FALSE ELSE isProcessing
    /\ status' = IF fulfil THEN "completed"
                 ELSE IF reject THEN "error" ELSE status
    /\ toast' = IF reject THEN "Processing Failed" ELSE toast
    \* await api.getDetections() of the .then handler
    /\ fetches' = IF fulfil THEN getDetections(fetches, p.stale) ELSE fetches
    /\ jobFetches' = IF fulfil THEN jobFetches + 1 ELSE jobFetches
    /\ UNCHANGED <<uploadedVideo, totalFrames, detectionSummary, conn,
                   uploadReqs, startReqs, calls>>
    /\ UNCHANGED pollvars

\* setTimeout(poll, intervalMs) fires: poll() sends the next status request
pollTimer(i) ==
    LET p == pollers[i] IN
    /\ p.timer
    /\ p.sent < MaxPolls
    /\ pollers' = [pollers EXCEPT ![i] = afterTimer(p)]
    /\ event' = step("pollTimer", TRUE, p.stale)
    /\ UNCHANGED <<dash, conn, toast, uploadReqs, startReqs, fetches, calls,
                   jobFetches>>
    /\ UNCHANGED pollvars

----------------------------------------------------------------------------
(* Detection summary *)

\* the continuation of the .then handler after await api.getDetections()
getDetectionsReply(i, reply, summary) ==
    /\ fetches' = RemoveAt(fetches, i)
    /\ event' = step("getDetectionsReply", apiRequest(reply).ok, fetches[i].stale)
    /\ IF apiRequest(reply).ok
       THEN /\ detectionSummary' = summary
            /\ detectedTargets' = summary.total_count
            /\ totalFrames' = summary.frames_processed
            /\ toast' = "Processing Complete"
       ELSE UNCHANGED <<detectionSummary, detectedTargets, totalFrames, toast>>
    /\ UNCHANGED <<uploadedVideo, isProcessing, progress, currentFrame, status,
                   conn, uploadReqs, startReqs, pollers, calls, jobFetches>>
    /\ UNCHANGED pollvars

----------------------------------------------------------------------------
(* Specification *)

Next ==
    \/ checkBackend
    \/ \E i \in DOMAIN probes : probeDeadline(i)
    \/ \E i \in DOMAIN probes, reply \in Replies : healthCheckReply(i, reply)
    \/ \E file \in Dropped : onDrop(file)
    \/ \E i \in DOMAIN uploadReqs, reply \in Replies : uploadVideoReply(i, reply)
    \/ handleStartProcessing
    \/ \E i \in DOMAIN startReqs, reply \in Replies : startProcessingReply(i, reply)
    \/ \E i \in DOMAIN pollers, reply \in Replies, st \in StatusVals :
          pollReply(i, reply, st)
    \/ \E i \in DOMAIN pollers : pollTimer(i)
    \/ \E i \in DOMAIN fetches, reply \in Replies, summary \in SummaryVals :
          getDetectionsReply(i, reply, summary)

Spec == Init /\ [][Next]_vars

\* the backend answers a request that is in flight, or a timer of a poll run
\* fires
respond ==
    \/ \E i \in DOMAIN probes, reply \in Replies : healthCheckReply(i, reply)
    \/ \E i \in DOMAIN uploadReqs, reply \in Replies : uploadVideoReply(i, reply)
    \/ \E i \in DOMAIN startReqs, reply \in Replies : startProcessingReply(i, reply)
    \/ \E i \in DOMAIN pollers, reply \in Replies, st \in StatusVals :
          pollReply(i, reply, st)
    \/ \E i \in DOMAIN pollers : pollTimer(i)
    \/ \E i \in DOMAIN fetches, reply \in Replies, summary \in SummaryVals :
          getDetectionsReply(i, reply, summary)

\* the user acts, or the effect runs again
act ==
    \/ checkBackend
    \/ \E file \in Dropped : onDrop(file)
    \/ handleStartProcessing

LiveNext ==
    \/ calls < MaxLiveCalls /\ act
    \/ \E i \in DOMAIN probes : probeDeadline(i)
    \/ respond

\* the dashboard with a backend that answers every request and an event loop
\* that runs every continuation and timer that is due; nothing makes the user
\* act or the effect run again
LiveSpec == Init /\ [][LiveNext]_vars /\ WF_vars(respond)

----------------------------------------------------------------------------
(* One run of api.pollProcessingStatus against a scripted backend.  The    *)
(* callback records the statuses it is given, and the caller records what  *)
(* the returned promise reports.                                           *)

\* the statuses of a script: progress 100 is what a finished job reports
ScriptStatusVals ==
    [is_processing : BOOLEAN, progress : ProgressVals \cup {100},
     detections_count : CountVals]

\* an answer of the scripted backend: a status, or a failed request
ScriptAnswers ==
    [reply : {"ok"}, st : ScriptStatusVals]
        \cup [reply : Replies \ {"ok"}, st : {"none"}]

Scripts == UNION {[1..n -> ScriptAnswers] : n \in 0..MaxScript}

\* api.pollProcessingStatus(onProgress) is called: poll() sends the first
\* status request
PollInit ==
    /\ DashInit
    /\ script \in Scripts
    /\ answered = 0
    /\ run = newPoller(0)
    /\ log = <<>>
    /\ outcome = <<>>

\* the backend answers the status request in flight with the next answer of
\* the script, and poll() continues
scriptedReply ==
    LET a == script[answered + 1]
        ok == apiRequest(a.reply).ok
    IN
    /\ run.req
    /\ answered < Len(script)
    /\ answered' = answered + 1
    /\ run' = afterReply(run, ok, a.st)
    /\ log' = IF ok THEN Append(log, a.st) ELSE log
    /\ outcome' =
          IF ok /\ fulfils(run, ok, a.st)
          THEN Append(outcome, [kind |-> "fulfilled", value |-> a.st])
          ELSE IF rejects(run, ok)
          THEN Append(outcome, [kind |-> "rejected",
                                value |-> apiRequest(a.reply).error])
          ELSE outcome
    /\ UNCHANGED <<script, dashvars>>

\* the timer of the run fires: poll() sends the next status request
scriptedTimer ==
    /\ run.timer
    /\ run' = afterTimer(run)
    /\ UNCHANGED <<script, answered, log, outcome, dashvars>>

PollNext == scriptedReply \/ scriptedTimer

PollSpec == PollInit /\ [][PollNext]_vars

----------------------------------------------------------------------------
(* The progress callback of handleStartProcessing on its own: a job has     *)
(* been started with some total frame count known from the job before (0   *)
(* when there was none), and the callback is given statuses.  progress is   *)
(* a number the backend chooses: nothing keeps it within 0..100.            *)

FrameProgressVals == {-10, 0, 10, 33, 50, 55, 99, 100, 150}
FrameCountVals == {0, 2, 7}
FrameTotals == {0, 1, 120, 8450}

FrameStatusVals ==
    [is_processing : {TRUE}, progress : FrameProgressVals,
     detections_count : FrameCountVals]

\* the state after a start has been acknowledged
FrameInit ==
    /\ totalFrames \in FrameTotals
    /\ uploadedVideo = "clip1.mp4"
    /\ isProcessing = TRUE
    /\ progress = 0
    /\ currentFrame = 0
    /\ detectedTargets = 0
    /\ status = "processing"
    /\ detectionSummary = IF totalFrames = 0 THEN NoSummary
                          ELSE [total_count |-> 2, frames_processed |-> totalFrames]
    /\ backendConnected = TRUE
    /\ toast = "Processing Started"
    /\ probes = <<>>
    /\ lastProbe = "Available"
    /\ uploadReqs = <<>>
    /\ startReqs = <<>>
    /\ pollers = <<newPoller(totalFrames)>>
    /\ fetches = <<>>
    /\ calls = 2
    /\ event = step("startProcessingReply", TRUE, "no")
    /\ jobFetches = 0
    /\ PollIdle

\* the callback (status) => { setProgress(status.progress);
\* setDetectedTargets(status.detections_count); if (totalFrames > 0)
\* setCurrentFrame(Math.floor((status.progress / 100) * totalFrames)) }
onProgress(st) ==
    /\ progress' = st.progress
    /\ detectedTargets' = st.detections_count
    /\ currentFrame' = IF pollers[1].tf > 0
                       THEN estimateFrame(st.progress, pollers[1].tf)
                       ELSE currentFrame
    /\ event' = step("onProgress", TRUE, "no")
    /\ UNCHANGED <<uploadedVideo, isProcessing, totalFrames, status,
                   detectionSummary, conn, toast, uploadReqs, startReqs,
                   pollers, fetches, calls, jobFetches>>
    /\ UNCHANGED pollvars

FrameNext == \E st \in FrameStatusVals : onProgress(st)

FrameSpec == FrameInit /\ [][FrameNext]_vars

\* x brought into the range lo..hi
clamp(x, lo, hi) == IF x < lo THEN lo ELSE IF x > hi THEN hi ELSE x

\* C21 (as claimed): with a total frame count greater than 0, the current
\* frame after a status is floor(progress / 100 * totalFrames) clamped to
\* 0..totalFrames, also for a progress outside 0..100.
C21_EstimateClamped ==
    (event.op = "onProgress" /\ totalFrames > 0)
       => currentFrame = clamp((progress * totalFrames) \div 100, 0, totalFrames)

\* C22 (as claimed): with the total frame count unknown (0), the current
\* frame after a status is not the number 0 but a value of its own that says
\* the frame is unknown.
C22_UnknownWhenNoFrameCount ==
    (event.op = "onProgress" /\ totalFrames = 0) => currentFrame # 0

----------------------------------------------------------------------------
(* The simulated dashboard: the first TacticalDashboard component of        *)
(* src/src/components/TacticalDashboard.tsx (lines 16-100), which has no    *)
(* backend.  A started run is a setInterval timer whose callback keeps the  *)
(* locals frame and targets; the live timers are kept in pollers.           *)
(* progress is a quotient and is kept as one.                               *)

SimTotalFrames == 8450      \* useState(8450)
FrameStep == 25             \* frame += 25

\* the number n / d
ratio(n, d) == [num |-> n, den |-> d]

\* (frame / totalFrames) * 100
progressPercent(frame, total) == ratio(frame * 100, total)

\* simDone with > in the place of >=
simDoneStrict(frame, total) == frame > total

\* if (frame >= totalFrames)
simDone(frame, total) == frame >= total

\* what the simulated dashboard does not have
simRest == <<detectionSummary, conn, uploadReqs, startReqs, fetches, jobFetches>>

SimInit ==
    /\ uploadedVideo = NoFile
    /\ isProcessing = FALSE
    /\ progress = ratio(0, 1)
    /\ currentFrame = 0
    /\ totalFrames = SimTotalFrames
    /\ detectedTargets = 0
    /\ status = "idle"
    /\ detectionSummary = NoSummary
    /\ backendConnected = FALSE
    /\ toast = "none"
    /\ probes = <<>>
    /\ lastProbe = "none"
    /\ uploadReqs = <<>>
    /\ startReqs = <<>>
    /\ pollers = <<>>
    /\ fetches = <<>>
    /\ calls = 0
    /\ event = step("mount", TRUE, "no")
    /\ jobFetches = 0
    /\ PollIdle

\* handleVideoUpload of the simulated dashboard
simHandleVideoUpload(file) ==
    /\ calls < MaxLiveCalls
    /\ calls' = calls + 1
    /\ event' = step("handleVideoUpload", TRUE, "no")
    /\ uploadedVideo' = file
    /\ status' = "idle"
    /\ progress' = ratio(0, 1)
    /\ currentFrame' = 0
    /\ detectedTargets' = 0
    /\ UNCHANGED <<isProcessing, totalFrames, toast, pollers, simRest>>
    /\ UNCHANGED pollvars

\* handleStartProcessing of the simulated dashboard: setInterval starts a run
\* with frame = 0 and targets = 0
simHandleStartProcessing ==
    /\ ~startDisabled
    /\ calls < MaxLiveCalls
    /\ calls' = calls + 1
    /\ event' = step("handleStartProcessing", TRUE, "no")
    /\ IF uploadedVideo = NoFile
       THEN /\ toast' = "No Video Loaded"
            /\ UNCHANGED <<isProcessing, status, pollers>>
       ELSE /\ isProcessing' = TRUE
            /\ status' = "processing"
            /\ pollers' = Append(pollers, [frame |-> 0, targets |-> 0])
            /\ toast' = toast
    /\ UNCHANGED <<uploadedVideo, progress, currentFrame, totalFrames,
                   detectedTargets, simRest>>
    /\ UNCHANGED pollvars

\* the callback of setInterval runs; hit is Math.random() > 0.95
simTick(i, hit) ==
    LET t == pollers[i]
        frame == t.frame + FrameStep
        targets == IF hit THEN t.targets + 1 ELSE t.targets
    IN
    /\ hit => t.targets < MaxTargets
    /\ event' = step("simTick", TRUE, "no")
    /\ detectedTargets' = IF hit THEN targets ELSE detectedTargets
    /\ currentFrame' = frame
    /\ progress' = progressPercent(frame, totalFrames)
    /\ IF simDone(frame, totalFrames)
       THEN /\ pollers' = RemoveAt(pollers, i)          \* clearInterval
            /\ isProcessing' = FALSE
            /\ status' = "completed"
            /\ toast' = "Processing Complete"
       ELSE /\ pollers' = [pollers EXCEPT ![i] = [frame |-> frame,
                                                  targets |-> targets]]
            /\ UNCHANGED <<isProcessing, status, toast>>
    /\ UNCHANGED <<uploadedVideo, totalFrames, calls, simRest>>
    /\ UNCHANGED pollvars

\* a timer that is set fires
simTimers == \E i \in DOMAIN pollers, hit \in BOOLEAN : simTick(i, hit)

SimNext ==
    \/ \E file \in Files : simHandleVideoUpload(file)
    \/ simHandleStartProcessing
    \/ simTimers

SimSpec == SimInit /\ [][SimNext]_vars /\ WF_vars(simTimers)

\* C34: in the simulated dashboard every tick advances the frame of its run
\* by 25, shows it as the current frame and sets progress to frame / 8450 *
\* 100, which never exceeds 100; the tick at which the frame reaches 8450
\* clears the timer and sets 'completed' with the processing flag cleared,
\* and no tick happens without a timer that is set; and every run that was
\* started gets there.
C34_SimulatedRunTerminates ==
    /\ [][event'.op = "simTick"
             => /\ pollers # <<>>
                /\ currentFrame' = pollers[1].frame + 25
                /\ progress' = ratio(currentFrame' * 100, 8450)
                /\ progress'.num <= 100 * progress'.den
                /\ IF currentFrame' = 8450
                   THEN pollers' = <<>> /\ status' = "completed" /\ ~isProcessing'
                   ELSE /\ currentFrame' < 8450
                        /\ pollers'[1].frame = currentFrame'
                        /\ UNCHANGED <<status, isProcessing>>]_vars
    /\ (pollers # <<>>) ~> (pollers = <<>> /\ status = "completed" /\ ~isProcessing)

\* a run has gone through its 338 ticks
C34_Witness ==
    /\ event.op = "simTick"
    /\ currentFrame = 8450
    /\ progress = ratio(845000, 8450)
    /\ status = "completed"
    /\ ~isProcessing
    /\ pollers = <<>>
    /\ toast = "Processing Complete"

----------------------------------------------------------------------------
(* Claims about the dashboard *)

\* every request in flight and every run that may still act
net == <<probes, uploadReqs, startReqs, pollers, fetches>>

\* the status requests in flight
statusRequests == {i \in DOMAIN pollers : pollers[i].req}

\* C1 (as claimed): in every reachable state at most one GET
\* /processing-status request is in flight.
C1_OneStatusRequestInFlight == Cardinality(statusRequests) <= 1

\* C2 (as claimed): a call of start() that arrives while an earlier start
\* request is still unacknowledged is rejected: it sends no start request, so
\* that only one Starting-to-Processing sequence proceeds.
C2_SecondStartRejected ==
    [][(event'.op = "handleStartProcessing" /\ Len(startReqs) > 0)
          => startReqs' = startReqs]_vars

\* C3 (as claimed): once a new asset has been accepted, the progress callback
\* is never invoked again for a polling loop of a job that the upload
\* superseded.
C3_NoSnapshotAfterNewAsset ==
    [][~(event'.op = "pollReply" /\ event'.ok /\ event'.stale = "upload")]_vars

\* C4 (as claimed): within one job the observed progress never decreases:
\* while the job stays in processing and no new start is acknowledged, no step
\* lowers progress.
C4_ProgressNeverDecreases ==
    [][(status = "processing" /\ status' = "processing"
           /\ event'.op # "startProcessingReply")
          => progress' >= progress]_vars

\* C7 (as claimed): for one job, while it is the current one, at most one
\* GET /detections request is sent.
C7_OneFetchPerJob == jobFetches <= 1

\* C8: start() called while no video asset is present fails with the
\* precondition toast; it sends no request, the job state stays idle and
\* progress, frame and target counts (the whole job state) are unchanged.
C8_StartWithoutAssetRejected ==
    [][(event'.op = "handleStartProcessing" /\ uploadedVideo = NoFile)
          => /\ toast' = "No Video Loaded"
             /\ status' = "idle"
             /\ UNCHANGED <<net, dash>>]_vars

C8_Witness ==
    /\ event.op = "handleStartProcessing"
    /\ uploadedVideo = NoFile
    /\ toast = "No Video Loaded"
    /\ backendConnected
    /\ startReqs = <<>>

\* C9: when the connectivity probe that completed last did not report the
\* backend available (or none has completed), start() sends no request and
\* leaves the job state unchanged; with an asset present it fails with the
\* backend-unavailable toast.
C9_StartWhileUnavailableRejected ==
    [][(event'.op = "handleStartProcessing" /\ lastProbe # "Available")
          => /\ UNCHANGED <<net, dash>>
             /\ uploadedVideo # NoFile => toast' = "Backend Unavailable (start)"]_vars

C9_Witness ==
    /\ event.op = "handleStartProcessing"
    /\ uploadedVideo # NoFile
    /\ lastProbe = "Unavailable"
    /\ toast = "Backend Unavailable (start)"
    /\ startReqs = <<>>
    /\ pollers = <<>>

\* C10 (as claimed): no health check stays unanswered past its deadline: at
\* the deadline the probe has resolved (to Unavailable(Timeout)).
C10_ProbeResolvesByDeadline == \A i \in DOMAIN probes : probes[i] # "overdue"

\* the step is the answer to a status request that ends the run in success:
\* a status with is_processing false, after which the run is gone
pollSucceeded ==
    event'.op = "pollReply" /\ event'.ok /\ Len(pollers') < Len(pollers)

\* the step is the answer to a status request that failed
pollFailed == event'.op = "pollReply" /\ ~event'.ok

\* C11: when a poll run reports terminal success while the job state is
\* processing, the state becomes completed (nothing marked as processing,
\* progress 100) and exactly one GET /detections request is sent, the only one
\* sent for that job so far.
C11_SuccessCompletesAndFetchesOnce ==
    [][(pollSucceeded /\ status = "processing")
          => /\ status' = "completed"
             /\ ~isProcessing'
             /\ progress' = 100
             /\ Len(fetches') = Len(fetches) + 1
             /\ jobFetches' = 1]_vars

C11_Witness ==
    /\ event.op = "pollReply"
    /\ event.ok
    /\ event.stale = "no"
    /\ status = "completed"
    /\ progress = 100
    /\ pollers = <<>>
    /\ Len(fetches) = 1
    /\ jobFetches = 1

\* C12: when a status request fails while the job state is processing, the
\* state becomes error with the toast "Processing Failed" raised, and nothing
\* is retried: the run that failed is gone (no request in flight, no timer
\* pending), and the step sends no start, status, upload or detections
\* request.
C12_FailureFailsWithoutRetry ==
    [][(pollFailed /\ status = "processing")
          => /\ status' = "error"
             /\ ~isProcessing'
             /\ toast' = "Processing Failed"
             /\ Len(pollers') = Len(pollers) - 1
             /\ Cardinality(statusRequests') = Cardinality(statusRequests) - 1
             /\ UNCHANGED <<startReqs, uploadReqs, fetches>>]_vars

C12_Witness ==
    /\ event.op = "pollReply"
    /\ ~event.ok
    /\ event.stale = "no"
    /\ status = "error"
    /\ toast = "Processing Failed"
    /\ ~isProcessing
    /\ pollers = <<>>
    /\ startReqs = <<>>
    /\ fetches = <<>>

\* C13 (as claimed): when the start request is rejected or fails in transport,
\* the job state is idle afterwards with the failure toast raised, whatever
\* the state was before, and no poll run is begun.
C13_FailedStartEndsIdle ==
    [][(event'.op = "startProcessingReply" /\ ~event'.ok)
          => /\ status' = "idle"
             /\ toast' = "Failed to Start Processing"
             /\ pollers' = pollers]_vars

\* C14 (as claimed): when an upload fails with a network or server error, the
\* job state is idle afterwards with the failure toast raised, whatever the
\* state was when the upload was attempted.
C14_FailedUploadRevertsToIdle ==
    [][(event'.op = "uploadVideoReply" /\ ~event'.ok)
          => /\ status' = "idle"
             /\ toast' = "Upload Failed"]_vars

\* C15 (as claimed): after a successful upload, from any state, the job state
\* is idle, nothing is marked as processing, progress, current frame and
\* target count are 0 and no detection summary is held.
C15_UploadReturnsToIdle ==
    [][(event'.op = "uploadVideoReply" /\ event'.ok)
          => /\ status' = "idle"
             /\ ~isProcessing'
             /\ progress' = 0
             /\ currentFrame' = 0
             /\ detectedTargets' = 0
             /\ detectionSummary' = NoSummary]_vars

\* C16 (as claimed): a detection summary is held only while the job state is
\* completed, and a summary that is held is never replaced by another one
\* except by the steps that begin a new job or take a new asset.
C16_SummaryOnlyWhileCompleted ==
    /\ [](detectionSummary # NoSummary => status = "completed")
    /\ [][(/\ detectionSummary # NoSummary
           /\ event'.op \notin {"uploadVideoReply", "startProcessingReply"})
             => detectionSummary' = detectionSummary]_vars

\* C17 (as claimed): the answers that belong to a superseded job (a late
\* status, the outcome of its poll run, its detection summary) change nothing
\* of the job state, progress, counts or summary and raise no toast.
C17_StaleResultsDiscarded ==
    [][(event'.op \in {"pollReply", "getDetectionsReply"} /\ event'.stale # "no")
          => UNCHANGED <<dash, toast>>]_vars

\* C18 (as claimed): in every reachable state at most one poll run is live
\* (has a request in flight or a timer pending).
C18_OnePollingLoopLive == Len(pollers) <= 1

\* C19 (as claimed): no upload request is ever sent for a file that is empty
\* or does not declare a video media type.
C19_InvalidFileNotSubmitted ==
    \A i \in DOMAIN uploadReqs :
        declaresVideo(uploadReqs[i]) /\ fileSize(uploadReqs[i]) > 0

\* C20 (as claimed): the error of a failed upload is always a typed upload
\* error: ApiError with the status of the answer for a non-2xx answer,
\* ApiError with status 0 for a transport failure, and nothing else.
C20_UploadErrorsTyped ==
    [][(event'.op = "uploadVideoReply" /\ ~event'.ok)
          => event'.error \in {"ApiError(status)", "ApiError(0)"}]_vars

\* C23 (as claimed): the job state leaves completed only when an upload is
\* accepted, and leaves error only when an upload is accepted or a start is
\* acknowledged.
C23_CompletedAndFailedTerminal ==
    [][/\ (status = "completed" /\ status' # "completed")
             => (event'.op = "uploadVideoReply" /\ event'.ok)
       /\ (status = "error" /\ status' # "error")
             => (event'.ok /\ event'.op \in {"uploadVideoReply",
                                             "startProcessingReply"})]_vars

\* the last run of pollers' is one that has just begun
begun(rs) ==
    /\ rs # <<>>
    /\ rs[Len(rs)].req
    /\ ~rs[Len(rs)].timer
    /\ rs[Len(rs)].sent = 1
    /\ rs[Len(rs)].stale = "no"

\* C26: the job state becomes processing only in the step that handles the
\* acknowledgement of a start request, and every acknowledged start sets the
\* state to processing, resets progress, current frame and target count to 0
\* and begins exactly one poll run, which sends its first status request.
C26_ProcessingOnlyAfterAck ==
    [][/\ (status # "processing" /\ status' = "processing")
             => (event'.op = "startProcessingReply" /\ event'.ok)
       /\ (event'.op = "startProcessingReply" /\ event'.ok)
             => /\ status' = "processing"
                /\ isProcessing'
                /\ progress' = 0 /\ currentFrame' = 0 /\ detectedTargets' = 0
                /\ Len(pollers') = Len(pollers) + 1
                /\ begun(pollers')]_vars

\* a second job is acknowledged after the first one completed with frames,
\* targets and a summary to show
C26_Witness ==
    /\ event.op = "startProcessingReply"
    /\ event.ok
    /\ status = "processing"
    /\ detectionSummary # NoSummary
    /\ totalFrames > 0
    /\ progress = 0 /\ currentFrame = 0 /\ detectedTargets = 0
    /\ Len(pollers) = 1
    /\ begun(pollers)

\* the step applies a status that reports ongoing processing: the run stays
snapshotApplied ==
    event'.op = "pollReply" /\ event'.ok /\ Len(pollers') = Len(pollers)

\* C27 (as claimed): a status snapshot is applied only while the job state is
\* processing, and it leaves the job state, the processing flag, the held
\* asset and the detection summary unchanged.
C27_SnapshotOnlyWhileProcessing ==
    [][snapshotApplied
          => /\ status = "processing"
             /\ UNCHANGED <<status, isProcessing, uploadedVideo,
                            detectionSummary>>]_vars

\* C28 (as claimed): isProcessing is true exactly when status is 'processing'.
C28_FlagAgreesWithStatus == isProcessing <=> (status = "processing")

\* C30 (as claimed): when GET /detections fails for the job that completed,
\* the state stays completed with progress 100, no detection summary is held,
\* and target count and total frame count are the ones from before.
C30_FailedFetchStaysCompleted ==
    [][(/\ event'.op = "getDetectionsReply"
        /\ ~event'.ok
        /\ event'.stale = "no"
        /\ status = "completed")
          => /\ status' = "completed"
             /\ progress' = 100
             /\ detectionSummary' = NoSummary
             /\ UNCHANGED <<detectedTargets, totalFrames>>]_vars

\* a run has sent as many status requests as the model follows and was told
\* each time that processing goes on
exhausted == \E i \in DOMAIN pollers : pollers[i].timer /\ pollers[i].sent = MaxPolls

\* C25 (as claimed): one failed probe does not block start() for good: after
\* a probe has failed, a later probe is made (which reports Available once the
\* backend can be reached).  Behaviours in which the user acts as often as
\* the model follows are left out.
C25_LaterProbeAfterFailure ==
    (lastProbe = "Unavailable" /\ probes = <<>> /\ calls < MaxLiveCalls)
       ~> (probes # <<>> \/ calls = MaxLiveCalls)

\* C29: when the backend answers every request and every timer fires, a job
\* that is processing eventually ends: the state becomes completed or error
\* with the processing flag cleared, unless the backend has answered every
\* status request the model follows with is_processing true.
C29_ProcessingEventuallyLeft ==
    (status = "processing" \/ isProcessing)
       ~> ((status \in {"completed", "error"} /\ ~isProcessing) \/ exhausted)

C29_Witness ==
    /\ event.op = "pollReply"
    /\ event.stale = "no"
    /\ status \in {"completed", "error"}
    /\ ~isProcessing
    /\ pollers = <<>>
    /\ ~exhausted

\* C31 (as claimed): from an accepted upload until the summary of the new
\* job has been fetched (while no summary is held), the total frame count is
\* unknown (0), and so is the count that the progress callback of a current
\* job uses.
C31_NoFrameCountFromEarlierJob ==
    detectionSummary = NoSummary
       => /\ totalFrames = 0
          /\ \A i \in DOMAIN pollers :
                pollers[i].stale = "no" => pollers[i].tf = 0

\* C32: an upload attempted while backendConnected is false raises the toast
\* "Backend Unavailable", sends no request of any kind, and leaves the held
\* video, job state, progress, counts and detection summary unchanged.
C32_UploadWhileDisconnectedRejected ==
    [][(event'.op = "handleVideoUpload" /\ ~backendConnected)
          => /\ toast' = "Backend Unavailable (upload)"
             /\ UNCHANGED <<net, dash>>]_vars

\* a second file is dropped after the backend was lost, with a video held
C32_Witness ==
    /\ event.op = "handleVideoUpload"
    /\ ~backendConnected
    /\ lastProbe = "Unavailable"
    /\ uploadedVideo # NoFile
    /\ toast = "Backend Unavailable (upload)"
    /\ uploadReqs = <<>>

\* C33: in every reachable state the export button is enabled exactly when
\* status is 'completed' and the start button is disabled exactly while
\* isProcessing is set; handleStartProcessing has therefore never been called
\* through the button while isProcessing was set.
C33_ActionsGatedByJobState ==
    /\ ~exportDisabled <=> (status = "completed")
    /\ startDisabled <=> isProcessing
    /\ event.op = "handleStartProcessing" => ~isProcessing

\* start is clicked again after a job completed: both buttons are enabled
C33_Witness ==
    /\ event.op = "handleStartProcessing"
    /\ status = "completed"
    /\ uploadedVideo # NoFile
    /\ ~exportDisabled
    /\ ~startDisabled
    /\ Len(startReqs) = 1

----------------------------------------------------------------------------
(* Claims about one poll run *)

\* the answer is a status that reports ongoing processing
ongoing(a) == a.reply = "ok" /\ a.st.is_processing

\* the answer is a status that reports that processing has stopped
stopped(a) == a.reply = "ok" /\ ~a.st.is_processing

\* k statuses with is_processing true followed by one with is_processing false
scriptOfC5 ==
    /\ Len(script) >= 1
    /\ \A i \in 1..(Len(script) - 1) : ongoing(script[i])
    /\ stopped(script[Len(script)])

\* C5: against k answers with is_processing true followed by one with
\* is_processing false, the callback has been given exactly the statuses
\* answered so far, in the order of the answers (k+1 of them in the end), and
\* success is reported exactly once, with the last status, when the last
\* answer has been handled and not before.
C5_SnapshotsInOrderThenSuccess ==
    scriptOfC5 =>
       /\ log = [i \in 1..answered |-> script[i].st]
       /\ outcome = IF answered = Len(script)
                    THEN <<[kind |-> "fulfilled", value |-> script[Len(script)].st]>>
                    ELSE <<>>

C5_Witness ==
    /\ scriptOfC5
    /\ Len(script) = 3
    /\ script[1].st.progress = 10
    /\ script[2].st.progress = 55
    /\ script[3].st.progress = 100
    /\ answered = 3
    /\ Len(log) = 3
    /\ Len(outcome) = 1
    /\ finished(run)

\* C6: whatever the backend answers, a poll run reports at most one terminal
\* outcome; it has reported one exactly when it has stopped (no request in
\* flight, no timer pending), and that outcome is success with the final status
\* if the last answer was a status, failure with the error if it was not.
C6_OutcomeExactlyOnce ==
    /\ Len(outcome) <= 1
    /\ finished(run) <=> Len(outcome) = 1
    /\ outcome # <<>> =>
          outcome[1] =
             IF script[answered].reply = "ok"
             THEN [kind |-> "fulfilled", value |-> script[answered].st]
             ELSE [kind |-> "rejected",
                   value |-> apiRequest(script[answered].reply).error]

C6_Witness ==
    /\ Len(script) = 3
    /\ answered = 2
    /\ Len(log) = 1
    /\ finished(run)
    /\ outcome = <<[kind |-> "rejected", value |-> "ApiError(0)"]>>

\* the answer ends the run: a status that reports that processing has
\* stopped, or a failed request
terminal(a) == a.reply # "ok" \/ stopped(a)

\* C24: a poll run stops at the first terminal answer: once a status with
\* is_processing false or a failed request has been handled, no later answer
\* of the backend is ever asked for, no request is in flight, no timer is
\* pending, and the callback has been given the statuses up to that answer
\* and no more.
C24_StopsAtFirstTerminal ==
    \A i \in 1..answered :
        terminal(script[i])
           => /\ answered = i
              /\ ~run.req
              /\ ~run.timer
              /\ Len(log) = IF script[i].reply = "ok" THEN i ELSE i - 1

C24_Witness ==
    /\ Len(script) = 3
    /\ ongoing(script[1])
    /\ stopped(script[2])
    /\ ongoing(script[3])
    /\ answered = 2
    /\ finished(run)
    /\ Len(log) = 2
    /\ Len(outcome) = 1

====
